---- MODULE Spec2Model ----
(***************************************************************************)
(* NYC taxi batch pipeline: the staging jobs (NYCTaxiTransformer in its S3 *)
(* and local variants, NYCTaxiGlueETL) and the curated job                 *)
(* (NYCTaxiCuratedETL).                                                    *)
(*                                                                         *)
(* Units.  All column values are integers:                                 *)
(*   timestamps             milliseconds since 2024-02-01 00:00:00, a      *)
(*                          Thursday (Spark timestamps carry sub-second     *)
(*                          precision; unix_timestamp drops it)            *)
(*   trip_distance          1/100 mile                                     *)
(*   fare/tip/total amount  cents                                          *)
(*   trip_duration_minutes  1/300 minute (holds both round(secs/60, 2) of  *)
(*                          the Transformer and secs/60 of the Glue job)   *)
(*   speed, fare_per_mile   1/100 mph, cents per mile                      *)
(*   tip_percentage         1/100 percent                                  *)
(* NULL is the SQL null of a column.                                       *)
(***************************************************************************)
EXTENDS Integers, Sequences, FiniteSets, TLC

VARIABLES raw, job, pc, df, agg, report, rulesRun, err, outcome, spark,
          stopCount, committed, trace, staging, curated, runs, health_report

vars == <<raw, job, pc, df, agg, report, rulesRun, err, outcome, spark,
          stopCount, committed, trace, staging, curated, runs, health_report>>

NULL == -999999

\* ------------------------------------------------------------------ bounds
MaxRows == 2
MaxRuns == 2
MaxRepeat == 5
MaxRatioRuns == 3
MaxJobRuns == 1
MaxDatapoints == 1
MaxPartitionRows == 3
MaxPartitions == 2

\* ------------------------------------------------- data quality thresholds
MAX_TRIP_DISTANCE == 10000
MIN_FARE_AMOUNT == 0
MAX_FARE_AMOUNT == 50000

\* --------------------------------------------------------- SQL expressions
\* A comparison with a null operand is null; filter() and when() act only on
\* TRUE, so each comparison is modelled by "evaluates to TRUE".
IsNull(x) == x = NULL
IsNotNull(x) == x # NULL
Lt(x, y) == x # NULL /\ y # NULL /\ x < y
Le(x, y) == x # NULL /\ y # NULL /\ x <= y
Gt(x, y) == x # NULL /\ y # NULL /\ x > y
Ge(x, y) == x # NULL /\ y # NULL /\ x >= y
Eq(x, y) == x # NULL /\ y # NULL /\ x = y
Between(x, lo, hi) == Ge(x, lo) /\ Le(x, hi)

\* round(n / m, scale) of Spark: HALF_UP on the quotient, null when an operand
\* is null or the divisor is 0.  n and m are already scaled to the result unit.
RoundDiv(n, m) ==
    IF n = NULL \/ m = NULL \/ m = 0 THEN NULL
    ELSE LET a == IF n < 0 THEN -n ELSE n
             b == IF m < 0 THEN -m ELSE m
             q == (2 * a + b) \div (2 * b)
         IN IF (n < 0) = (m < 0) THEN q ELSE -q

\* unix_timestamp(ts): whole seconds, the fraction dropped
unix_timestamp(ts) == IF ts = NULL THEN NULL ELSE ts \div 1000

hour(ts) == IF ts = NULL THEN NULL ELSE (unix_timestamp(ts) \div 3600) % 24

\* days since 2024-02-01
to_date(ts) == IF ts = NULL THEN NULL ELSE unix_timestamp(ts) \div 86400

\* dayofweek: 1 = Sunday ... 7 = Saturday; 2024-02-01 is a Thursday (5)
dayofweek(ts) == IF ts = NULL THEN NULL ELSE ((to_date(ts) + 4) % 7) + 1

Filter(t, keep(_)) == SelectSeq(t, keep)
WithColumns(t, f(_)) == [i \in 1..Len(t) |-> f(t[i])]
Count(t) == Len(t)

\* ------------------------------------------- NYCTaxiTransformer.clean_data
NotNullTimes(r) ==
    IsNotNull(r.tpep_pickup_datetime) /\ IsNotNull(r.tpep_dropoff_datetime)

ValidDistance(r) ==
    Ge(r.trip_distance, 0) /\ Le(r.trip_distance, MAX_TRIP_DISTANCE)

ValidFare(r) ==
    Ge(r.fare_amount, MIN_FARE_AMOUNT) /\ Le(r.fare_amount, MAX_FARE_AMOUNT)

NonNegativeTotal(r) == Ge(r.total_amount, 0)

ImputeNothing(r) == r

ImputePassengerAndTotal(r) ==
    [r EXCEPT !.passenger_count =
                  IF IsNull(r.passenger_count) \/ Eq(r.passenger_count, 0)
                  THEN 1 ELSE r.passenger_count,
              !.total_amount =
                  IF IsNull(r.total_amount) THEN 0 ELSE r.total_amount]

ImputePassengerCount(r) ==
    [r EXCEPT !.passenger_count =
        IF IsNull(r.passenger_count) \/ Eq(r.passenger_count, 0)
        THEN 1 ELSE r.passenger_count]

PickupNotAfterDropoff(r) == Le(r.tpep_pickup_datetime, r.tpep_dropoff_datetime)

PickupBeforeDropoff(r) == Lt(r.tpep_pickup_datetime, r.tpep_dropoff_datetime)

clean_data(t) ==
    LET f1 == Filter(t, NotNullTimes)
        f2 == Filter(f1, ValidDistance)
        f3 == Filter(f2, ValidFare)
        f4 == Filter(f3, NonNegativeTotal)
        f5 == WithColumns(f4, ImputePassengerCount)
    IN Filter(f5, PickupBeforeDropoff)

\* --------------------------------- NYCTaxiGlueETL.clean_and_validate_data
GlueCriticalNotNull(r) ==
    /\ IsNotNull(r.tpep_pickup_datetime) /\ IsNotNull(r.tpep_dropoff_datetime)
    /\ IsNotNull(r.passenger_count) /\ IsNotNull(r.trip_distance)
    /\ IsNotNull(r.total_amount)

GlueQualityFilter(r) ==
    /\ Ge(r.passenger_count, 1) /\ Le(r.passenger_count, 8)
    /\ Ge(r.trip_distance, 10) /\ Le(r.trip_distance, 10000)
    /\ Ge(r.total_amount, 0) /\ Le(r.total_amount, 100000)
    /\ Lt(r.tpep_pickup_datetime, r.tpep_dropoff_datetime)

\* (unix_timestamp(dropoff) - unix_timestamp(pickup)) / 60, not rounded
GlueDuration(r) ==
    r @@ [trip_duration_minutes |->
            5 * (unix_timestamp(r.tpep_dropoff_datetime)
                 - unix_timestamp(r.tpep_pickup_datetime))]

GlueReasonableDuration(r) ==
    Ge(r.trip_duration_minutes, 300) /\ Le(r.trip_duration_minutes, 144000)

clean_and_validate_data(t) ==
    Filter(WithColumns(Filter(Filter(t, GlueCriticalNotNull), GlueQualityFilter),
                       GlueDuration),
           GlueReasonableDuration)

\* ------------------------------------ NYCTaxiTransformer.add_derived_columns
TimeOfDay(h) ==
    IF Between(h, 6, 11) THEN "Morning"
    ELSE IF Between(h, 12, 17) THEN "Afternoon"
    ELSE IF Between(h, 18, 22) THEN "Evening"
    ELSE "Night"

DayType(dow) == IF dow # NULL /\ dow \in {1, 7} THEN "Weekend" ELSE "Weekday"

\* round(seconds / 60, 2), kept in 1/300 minute
DurationMinutes(r) ==
    LET secs == unix_timestamp(r.tpep_dropoff_datetime)
                - unix_timestamp(r.tpep_pickup_datetime)
    IN 3 * RoundDiv(secs * 100, 60)

SpeedMphPerMinute(distance, duration) ==
    IF Gt(duration, 0) THEN RoundDiv(distance * 300, duration) ELSE 0

\* when(duration > 0, round(distance / duration * 60, 2)).otherwise(0)
SpeedMph(distance, duration) ==
    IF Gt(duration, 0) THEN RoundDiv(distance * 18000, duration) ELSE 0

FarePerMile(fare, distance) ==
    IF Gt(distance, 0) THEN RoundDiv(fare * 100, distance) ELSE 0

TipPercentage(tip, fare) ==
    IF Gt(fare, 0)
    THEN (IF tip = NULL THEN NULL ELSE RoundDiv(tip * 10000, fare))
    ELSE 0

PaymentMethod(code) ==
    IF Eq(code, 1) THEN "Credit Card"
    ELSE IF Eq(code, 2) THEN "Cash"
    ELSE IF Eq(code, 3) THEN "No Charge"
    ELSE IF Eq(code, 4) THEN "Dispute"
    ELSE "Unknown"

TripCategory(distance) ==
    IF Lt(distance, 100) THEN "Short"
    ELSE IF Between(distance, 100, 500) THEN "Medium"
    ELSE IF Between(distance, 500, 1500) THEN "Long"
    ELSE "Extra Long"

Enrich(r) ==
    LET dur == DurationMinutes(r)
        h == hour(r.tpep_pickup_datetime)
        dow == dayofweek(r.tpep_pickup_datetime)
    IN r @@ [trip_duration_minutes |-> dur,
             pickup_hour |-> h,
             pickup_day_of_week |-> dow,
             pickup_date |-> to_date(r.tpep_pickup_datetime),
             time_of_day_category |-> TimeOfDay(h),
             day_type |-> DayType(dow),
             speed_mph |-> SpeedMph(r.trip_distance, dur),
             fare_per_mile |-> FarePerMile(r.fare_amount, r.trip_distance),
             tip_percentage |-> TipPercentage(r.tip_amount, r.fare_amount),
             payment_method |-> PaymentMethod(r.payment_type),
             trip_category |-> TripCategory(r.trip_distance)]

RealisticSpeed(r) == Le(r.speed_mph, 8000)

add_derived_columns(t) == Filter(WithColumns(t, Enrich), RealisticSpeed)

\* --------------------------------- NYCTaxiTransformer.add_data_quality_flags
SpeedFlagInclusive(speed) ==
    IF Ge(speed, 5000) THEN "High Speed"
    ELSE IF Le(speed, 50) THEN "Very Slow"
    ELSE "Normal"

SpeedFlag(speed) ==
    IF Gt(speed, 5000) THEN "High Speed"
    ELSE IF Lt(speed, 50) THEN "Very Slow"
    ELSE "Normal"

FareFlag(fpm) ==
    IF Gt(fpm, 1000) THEN "High Fare Rate"
    ELSE IF Lt(fpm, 100) THEN "Low Fare Rate"
    ELSE "Normal"

DurationFlag(dur) ==
    IF Gt(dur, 18000) THEN "Long Trip"
    ELSE IF Lt(dur, 300) THEN "Very Short"
    ELSE "Normal"

Flag(r) ==
    r @@ [quality_flag_speed |-> SpeedFlag(r.speed_mph),
          quality_flag_fare |-> FareFlag(r.fare_per_mile),
          quality_flag_duration |-> DurationFlag(r.trip_duration_minutes)]

FlagAndDropAnomalies(t) ==
    LET AllNormal(r) == /\ r.quality_flag_speed = "Normal"
                        /\ r.quality_flag_fare = "Normal"
                        /\ r.quality_flag_duration = "Normal"
    IN Filter(WithColumns(t, Flag), AllNormal)

add_data_quality_flags(t) == WithColumns(t, Flag)

\* ---------------------------- NYCTaxiGlueETL.add_business_transformations
GlueTimeOfDay(h) ==
    IF Ge(h, 6) /\ Lt(h, 12) THEN "Morning"
    ELSE IF Ge(h, 12) /\ Lt(h, 18) THEN "Afternoon"
    ELSE IF Ge(h, 18) /\ Lt(h, 22) THEN "Evening"
    ELSE "Night"

GluePaymentMethod(code) ==
    IF Eq(code, 1) THEN "Credit Card"
    ELSE IF Eq(code, 2) THEN "Cash"
    ELSE IF Eq(code, 3) THEN "No Charge"
    ELSE IF Eq(code, 4) THEN "Dispute"
    ELSE IF Eq(code, 5) THEN "Unknown"
    ELSE IF Eq(code, 6) THEN "Voided Trip"
    ELSE "Other"

RateCodeDesc(code) ==
    IF Eq(code, 1) THEN "Standard Rate"
    ELSE IF Eq(code, 2) THEN "JFK"
    ELSE IF Eq(code, 3) THEN "Newark"
    ELSE IF Eq(code, 4) THEN "Nassau or Westchester"
    ELSE IF Eq(code, 5) THEN "Negotiated Fare"
    ELSE IF Eq(code, 6) THEN "Group Ride"
    ELSE "Unknown"

GlueQualityFlag(speed, fpm, distance) ==
    IF Gt(speed, 6000) THEN "High Speed"
    ELSE IF Gt(fpm, 1000) THEN "High Fare Rate"
    ELSE IF Gt(distance, 5000) THEN "Long Distance"
    ELSE "Normal"

GlueTransform(r) ==
    LET h == hour(r.tpep_pickup_datetime)
        dow == dayofweek(r.tpep_pickup_datetime)
        speed == RoundDiv(r.trip_distance * 18000, r.trip_duration_minutes)
        fpm == IF r.fare_amount = NULL THEN NULL
               ELSE RoundDiv(r.fare_amount * 100, r.trip_distance)
    IN r @@ [pickup_hour |-> h,
             pickup_day_of_week |-> dow,
             pickup_date |-> to_date(r.tpep_pickup_datetime),
             time_of_day_category |-> GlueTimeOfDay(h),
             day_type |-> DayType(dow),
             average_speed_mph |-> speed,
             payment_method |-> GluePaymentMethod(r.payment_type),
             rate_code_desc |-> RateCodeDesc(r.RatecodeID),
             fare_per_mile |-> fpm,
             data_quality_flag |-> GlueQualityFlag(speed, fpm, r.trip_distance)]

add_business_transformations(t) == WithColumns(t, GlueTransform)

\* ------------------------------------------------- the five curated views
ViewNames ==
    <<"daily_summary", "hourly_patterns", "payment_analysis",
      "distance_analysis", "location_analysis">>

DistanceCategoryExclusive(distance) ==
    IF Lt(distance, 100) THEN "Short"
    ELSE IF Ge(distance, 100) /\ Lt(distance, 500) THEN "Medium"
    ELSE IF Ge(distance, 500) /\ Lt(distance, 1000) THEN "Long"
    ELSE "Very Long"

DistanceCategory(distance) ==
    IF Le(distance, 100) THEN "Short"
    ELSE IF Gt(distance, 100) /\ Le(distance, 500) THEN "Medium"
    ELSE IF Gt(distance, 500) /\ Le(distance, 1000) THEN "Long"
    ELSE "Very Long"

\* the grouping key of a staging row in each view (groupBy columns)
GroupKey(v, r) ==
    CASE v = "daily_summary" -> <<r.pickup_date, r.day_type>>
      [] v = "hourly_patterns" ->
            <<r.pickup_hour, r.time_of_day_category, r.day_type>>
      [] v = "payment_analysis" -> <<r.payment_method, r.day_type>>
      [] v = "distance_analysis" ->
            <<DistanceCategory(r.trip_distance), r.time_of_day_category>>
      [] v = "location_analysis" -> <<r.rate_code_desc, r.day_type>>

\* the rows of t that fall in group k of view v, in table order
GroupRowsAll(v, t, k) == t

GroupRows(v, t, k) == SelectSeq(t, LAMBDA r : GroupKey(v, r) = k)

\* ---- aggregate functions over the rows g of one group; they skip nulls
NonNull(g, c) == SelectSeq(g, LAMBDA r : r[c] # NULL)

RECURSIVE Total(_, _)
Total(g, c) == IF g = << >> THEN 0 ELSE Head(g)[c] + Total(Tail(g), c)

RECURSIVE TotalSq(_, _)
TotalSq(g, c) ==
    IF g = << >> THEN 0 ELSE Head(g)[c] * Head(g)[c] + TotalSq(Tail(g), c)

spark_sum(g, c) == IF NonNull(g, c) = << >> THEN NULL ELSE Total(NonNull(g, c), c)

\* avg: the exact quotient, kept as <<sum, count>> of the non-null values;
\* it is null when there is none
avg(g, c) == <<Total(NonNull(g, c), c), Len(NonNull(g, c))>>

NullAvg(a) == a[2] = 0

Values(g, c) == {NonNull(g, c)[i][c] : i \in 1..Len(NonNull(g, c))}

max(g, c) ==
    IF NonNull(g, c) = << >> THEN NULL
    ELSE CHOOSE x \in Values(g, c) : \A y \in Values(g, c) : y <= x

min(g, c) ==
    IF NonNull(g, c) = << >> THEN NULL
    ELSE CHOOSE x \in Values(g, c) : \A y \in Values(g, c) : x <= y

\* count(when(col == val, 1)) and count(when(col != val, 1)) on a label
\* column, which a when/otherwise chain filled and so is never null
CountEq(g, c, val) == Len(SelectSeq(g, LAMBDA r : r[c] = val))
CountNe(g, c, val) == Len(SelectSeq(g, LAMBDA r : r[c] # val))

\* stddev (sample): a square root has no integer form, so the value is kept
\* as the statistics that determine it, sqrt((sumsq - sum^2 / n) / (n - 1));
\* it is null for fewer than two values
stddev(g, c) ==
    [n |-> Len(NonNull(g, c)), sum |-> Total(NonNull(g, c), c),
     sumsq |-> TotalSq(NonNull(g, c), c)]

NullStddev(sd) == sd.n < 2

\* percentile_approx(col, 0.5), exact on a small group: the smallest value
\* with at least half of the values at or below it
percentile_approx(g, c) ==
    IF NonNull(g, c) = << >> THEN NULL
    ELSE LET nn == NonNull(g, c)
             AtOrBelow(x) == Cardinality({i \in 1..Len(nn) : nn[i][c] <= x})
             half == {x \in Values(g, c) : 2 * AtOrBelow(x) >= Len(nn)}
         IN CHOOSE x \in half : \A y \in half : x <= y

\* a / b of two columns, b a count or a sum: null when b is 0 or an operand
\* is null (Spark's division with ANSI mode off), rounded half-up
Ratio(a, b, scale) ==
    IF a = NULL \/ b = NULL THEN NULL ELSE RoundDiv(a * scale, b)

\* round(fare_stddev / avg_fare, 3): null when the average is 0 or an operand
\* is null; otherwise the quotient of the two, kept unevaluated
CoefficientOfVariation(sd, mean) ==
    [is_null |-> NullStddev(sd) \/ NullAvg(mean) \/ mean[1] = 0,
     stddev |-> sd, avg |-> mean]

\* avg_tip / (avg_fare - avg_tip) * 100 to 1 decimal, in 1/10 percent, from
\* the two averages <<sum, count>>
AvgTipPercentage(tip, fare) ==
    IF NullAvg(tip) \/ NullAvg(fare) THEN NULL
    ELSE RoundDiv(tip[1] * fare[2] * 1000,
                  fare[1] * tip[2] - tip[1] * fare[2])

\* create_daily_summary: money in cents, percentages in 1/10 or 1/100 percent,
\* avg_passengers_per_trip in 1/10 passenger
DailySummaryRow(g, k) ==
    LET total_trips == Len(g)
        total_revenue == spark_sum(g, "total_amount")
        credit_card_trips == CountEq(g, "payment_method", "Credit Card")
        total_passengers == spark_sum(g, "passenger_count")
        anomaly_trips == CountNe(g, "data_quality_flag", "Normal")
    IN [view |-> "daily_summary", key |-> k,
        pickup_date |-> k[1], day_type |-> k[2],
        total_trips |-> total_trips,
        total_revenue |-> total_revenue,
        avg_fare |-> avg(g, "total_amount"),
        avg_distance |-> avg(g, "trip_distance"),
        avg_duration |-> avg(g, "trip_duration_minutes"),
        avg_speed |-> avg(g, "average_speed_mph"),
        max_fare |-> max(g, "total_amount"),
        min_fare |-> min(g, "total_amount"),
        credit_card_trips |-> credit_card_trips,
        cash_trips |-> CountEq(g, "payment_method", "Cash"),
        total_passengers |-> total_passengers,
        anomaly_trips |-> anomaly_trips,
        revenue_per_trip |-> Ratio(total_revenue, total_trips, 1),
        credit_card_percentage |-> Ratio(credit_card_trips, total_trips, 1000),
        avg_passengers_per_trip |-> Ratio(total_passengers, total_trips, 10),
        anomaly_percentage |-> Ratio(anomaly_trips, total_trips, 10000)]

\* create_hourly_patterns
HourlyPatternsRow(g, k) ==
    [view |-> "hourly_patterns", key |-> k,
     pickup_hour |-> k[1], time_of_day_category |-> k[2], day_type |-> k[3],
     trip_count |-> Len(g),
     avg_fare |-> avg(g, "total_amount"),
     avg_distance |-> avg(g, "trip_distance"),
     avg_duration |-> avg(g, "trip_duration_minutes"),
     avg_speed |-> avg(g, "average_speed_mph"),
     total_revenue |-> spark_sum(g, "total_amount"),
     fare_stddev |-> stddev(g, "total_amount"),
     revenue_per_hour |-> spark_sum(g, "total_amount"),
     fare_coefficient_of_variation |->
        CoefficientOfVariation(stddev(g, "total_amount"),
                               avg(g, "total_amount"))]

\* create_payment_analysis
PaymentAnalysisRow(g, k) ==
    [view |-> "payment_analysis", key |-> k,
     payment_method |-> k[1], day_type |-> k[2],
     trip_count |-> Len(g),
     total_revenue |-> spark_sum(g, "total_amount"),
     avg_fare |-> avg(g, "total_amount"),
     avg_distance |-> avg(g, "trip_distance"),
     avg_tip |-> avg(g, "tip_amount"),
     median_fare |-> percentile_approx(g, "total_amount"),
     median_tip |-> percentile_approx(g, "tip_amount"),
     avg_tip_percentage |->
        AvgTipPercentage(avg(g, "tip_amount"), avg(g, "total_amount"))]

\* create_trip_distance_analysis
DistanceAnalysisRow(g, k) ==
    [view |-> "distance_analysis", key |-> k,
     distance_category |-> k[1], time_of_day_category |-> k[2],
     trip_count |-> Len(g),
     avg_fare |-> avg(g, "total_amount"),
     avg_duration |-> avg(g, "trip_duration_minutes"),
     avg_speed |-> avg(g, "average_speed_mph"),
     total_revenue |-> spark_sum(g, "total_amount"),
     avg_fare_per_mile |-> avg(g, "fare_per_mile"),
     fare_efficiency |-> Ratio(spark_sum(g, "total_amount"), Len(g), 1)]

\* create_location_analysis: market_share_rank is round(trip_count, 0)
LocationAnalysisRow(g, k) ==
    [view |-> "location_analysis", key |-> k,
     rate_code_desc |-> k[1], day_type |-> k[2],
     trip_count |-> Len(g),
     avg_fare |-> avg(g, "total_amount"),
     avg_distance |-> avg(g, "trip_distance"),
     avg_duration |-> avg(g, "trip_duration_minutes"),
     total_revenue |-> spark_sum(g, "total_amount"),
     market_share_rank |-> Len(g)]

ViewRow(v, g, k) ==
    CASE v = "daily_summary" -> DailySummaryRow(g, k)
      [] v = "hourly_patterns" -> HourlyPatternsRow(g, k)
      [] v = "payment_analysis" -> PaymentAnalysisRow(g, k)
      [] v = "distance_analysis" -> DistanceAnalysisRow(g, k)
      [] v = "location_analysis" -> LocationAnalysisRow(g, k)

\* groupBy(keys).agg(...).withColumn(...): one row per key that occurs in t
CreateViewOfNormalTrips(v, t) ==
    LET n == SelectSeq(t, LAMBDA r : r.data_quality_flag = "Normal")
    IN {ViewRow(v, GroupRows(v, n, k), k) :
            k \in {GroupKey(v, n[i]) : i \in 1..Len(n)}}

CreateView(v, t) ==
    {ViewRow(v, GroupRows(v, t, k), k) : k \in {GroupKey(v, t[i]) : i \in 1..Len(t)}}

\* ------------------------------------- DoubleType sums of the aggregations
\* The money columns are DoubleType.  The view rows above carry the exact sum
\* in cents, which the DoubleType sum equals up to rounding; the order in
\* which Spark adds partial sums shows only in the binary64 value itself,
\* modelled here.  A double is bits * 2^exp with bits a 53-bit significand,
\* most significant bit first (all 0 for 0.0); only finite values >= 0 occur.
MantissaBits == 53

Zeros(n) == [i \in 1..n |-> 0]

DoubleZero == [exp |-> 0, bits |-> Zeros(MantissaBits)]

\* x + y of two bit strings of one length, one bit longer; the carry into a
\* position comes from the nearest position to its right that generates one
\* (1 + 1) with every position between passing it on (0 + 1)
AddBits(x, y) ==
    LET n == Len(x)
        p == [i \in 1..n |-> x[i] + y[i]]
        carry(i) ==
            IF \E j \in (i + 1)..n :
                   p[j] = 2 /\ \A k \in (i + 1)..(j - 1) : p[k] = 1
            THEN 1 ELSE 0
    IN [i \in 1..(n + 1) |->
            IF i = 1 THEN carry(0) ELSE (p[i - 1] + carry(i - 1)) % 2]

RECURSIVE StripZeros(_)
StripZeros(x) ==
    IF x = << >> \/ x[1] = 1 THEN x ELSE StripZeros(Tail(x))

\* round-to-nearest-even of the value x * 2^exp (plus a nonzero tail below
\* its last bit when sticky) to a double; x starts with a 1 bit
RoundToDouble(x, exp, sticky) ==
    LET n == Len(x) IN
    IF n <= MantissaBits
    THEN [exp |-> exp - (MantissaBits - n),
          bits |-> x \o Zeros(MantissaBits - n)]
    ELSE LET keep == SubSeq(x, 1, MantissaBits)
             rest == SubSeq(x, MantissaBits + 1, n)
             more == sticky \/ \E i \in 2..Len(rest) : rest[i] = 1
             up == rest[1] = 1 /\ (more \/ keep[MantissaBits] = 1)
             k == IF up
                  THEN AddBits(keep, Zeros(MantissaBits - 1) \o <<1>>)
                  ELSE <<0>> \o keep
         IN IF k[1] = 1
            THEN [exp |-> exp + Len(rest) + 1,
                  bits |-> SubSeq(k, 1, MantissaBits)]
            ELSE [exp |-> exp + Len(rest), bits |-> Tail(k)]

\* a + b in binary64
DoubleAdd(a, b) ==
    IF a = DoubleZero THEN b
    ELSE IF b = DoubleZero THEN a
    ELSE LET hi == IF a.exp >= b.exp THEN a ELSE b
             lo == IF a.exp >= b.exp THEN b ELSE a
             d == hi.exp - lo.exp
             total == AddBits(hi.bits \o Zeros(d), Zeros(d) \o lo.bits)
         IN RoundToDouble(StripZeros(total), lo.exp, FALSE)

RECURSIVE IntBits(_)
IntBits(n) == IF n = 0 THEN << >> ELSE IntBits(n \div 2) \o <<n % 2>>

\* the first k bits of the binary fraction r / den (r < den), and what is
\* left of r after them
RECURSIVE FracBits(_, _, _)
FracBits(r, den, k) ==
    IF k = 0 THEN << >>
    ELSE <<(2 * r) \div den>> \o FracBits((2 * r) % den, den, k - 1)

RECURSIVE FracRem(_, _, _)
FracRem(r, den, k) ==
    IF k = 0 THEN r ELSE FracRem((2 * r) % den, den, k - 1)

\* the double nearest to n / den: the value a column holds for the decimal
\* amount of n cents (den = 100)
DoubleOf(n, den) ==
    IF n = 0 THEN DoubleZero
    ELSE LET x == IntBits(n \div den) \o FracBits(n % den, den, 64)
         IN RoundToDouble(StripZeros(x), -64, FracRem(n % den, den, 64) # 0)

\* ---------------------------- the stages as Spark runs them, by partition
\* the staging pipeline of job j on the rows t (of a table or of a partition)
StagingRows(j, t) ==
    IF j = "glue"
    THEN add_business_transformations(clean_and_validate_data(t))
    ELSE add_data_quality_flags(add_derived_columns(clean_data(t)))

\* the rows of t that partition k holds, in table order
PartitionOf(t, assign, k) ==
    LET idx == {i \in 1..Len(t) : assign[i] = k}
    IN [n \in 1..Cardinality(idx) |->
            t[CHOOSE i \in idx : Cardinality({j \in idx : j < i}) = n - 1]]

\* sum("total_amount") over the rows g, added one by one to the buffer acc
RECURSIVE DoubleSum(_, _)
DoubleSum(acc, g) ==
    IF g = << >> THEN acc
    ELSE DoubleSum(IF Head(g).total_amount = NULL THEN acc
                   ELSE DoubleAdd(acc, DoubleOf(Head(g).total_amount, 100)),
                   Tail(g))

\* count, sum, max and min of create_daily_summary over the rows t of one
\* partition: one aggregation buffer per (pickup_date, day_type)
PartialDailySummary(t) ==
    {LET g == GroupRows("daily_summary", t, k)
     IN [key |-> k,
         total_trips |-> Len(g),
         total_revenue |-> DoubleSum(DoubleZero, g),
         max_fare |-> max(g, "total_amount"),
         min_fare |-> min(g, "total_amount")] :
        k \in {GroupKey("daily_summary", t[i]) : i \in 1..Len(t)}}

\* the merge of two sets of aggregation buffers
MergePartial(p, q) ==
    LET Keys(x) == {a.key : a \in x}
        Of(x, k) == CHOOSE a \in x : a.key = k
    IN {IF k \notin Keys(q) THEN Of(p, k)
        ELSE IF k \notin Keys(p) THEN Of(q, k)
        ELSE [key |-> k,
              total_trips |-> Of(p, k).total_trips + Of(q, k).total_trips,
              total_revenue |->
                  DoubleAdd(Of(p, k).total_revenue, Of(q, k).total_revenue),
              max_fare |-> IF Of(p, k).max_fare >= Of(q, k).max_fare
                           THEN Of(p, k).max_fare ELSE Of(q, k).max_fare,
              min_fare |-> IF Of(p, k).min_fare <= Of(q, k).min_fare
                           THEN Of(p, k).min_fare ELSE Of(q, k).min_fare] :
        k \in Keys(p) \cup Keys(q)}

\* the buffers of the partitions merged in the order they arrive
RECURSIVE MergeAll(_)
MergeAll(partials) ==
    IF Len(partials) = 1 THEN partials[1]
    ELSE MergePartial(MergeAll(SubSeq(partials, 1, Len(partials) - 1)),
                      partials[Len(partials)])

\* ----------------------------------------------------------------- storage
StagingJobs == {"s3", "local", "glue"}
Jobs == StagingJobs \cup {"curated"}

\* the rows a reader finds under a path: those of every file written there
RECURSIVE Concat(_)
Concat(files) ==
    IF files = << >> THEN << >> ELSE Head(files) \o Concat(Tail(files))

\* DataFrameWriter.mode("overwrite"): the path holds the new table only
Overwrite(files, t) == <<t>>

\* write_dynamic_frame.from_options: new files are added under the path; an
\* empty frame writes no file
AppendFiles(files, t) == IF Count(t) = 0 THEN files ELSE Append(files, t)

\* A DataFrame is a plan, not a table: nothing in the curated job caches
\* staging_df, so every Spark action on it or on a frame derived from it
\* scans the staging files again.  The actions of a call that returned:
\* df.count() in read_staging_data; the write and df.count() in
\* write_curated_table.
ScansOf(e) ==
    IF ~e.ok THEN 0
    ELSE IF e.step = "read_staging_data" THEN 1
    ELSE IF \E i \in 1..Len(ViewNames) : e.step = "write:" \o ViewNames[i]
    THEN 2
    ELSE 0

RECURSIVE StagingScans(_)
StagingScans(tr) ==
    IF tr = << >> THEN 0 ELSE ScansOf(Head(tr)) + StagingScans(Tail(tr))

\* ------------------------------------------------------- pipeline methods
\* the calls of run_transformation_pipeline / run_etl_pipeline /
\* run_aggregation_pipeline, in program order
StepsWriteBeforeFlags(j) ==
    CASE j = "s3" ->
            <<"create_spark_session", "read_raw_data", "clean_data",
              "add_derived_columns", "write_to_staging",
              "add_data_quality_flags", "print_summary_stats">>
      [] j = "local" ->
            <<"create_spark_session", "read_raw_data", "clean_data",
              "add_derived_columns", "add_data_quality_flags",
              "print_summary_stats", "analyze_data_quality",
              "write_to_staging">>
      [] j = "glue" ->
            <<"read_raw_data", "clean_and_validate_data",
              "add_business_transformations", "write_to_staging",
              "final_statistics">>
      [] j = "curated" ->
            <<"read_staging_data",
              "create:daily_summary", "write:daily_summary",
              "create:hourly_patterns", "write:hourly_patterns",
              "create:payment_analysis", "write:payment_analysis",
              "create:distance_analysis", "write:distance_analysis",
              "create:location_analysis", "write:location_analysis">>

Steps(j) ==
    CASE j = "s3" ->
            <<"create_spark_session", "read_raw_data", "clean_data",
              "add_derived_columns", "add_data_quality_flags",
              "print_summary_stats", "write_to_staging">>
      [] j = "local" ->
            <<"create_spark_session", "read_raw_data", "clean_data",
              "add_derived_columns", "add_data_quality_flags",
              "print_summary_stats", "analyze_data_quality",
              "write_to_staging">>
      [] j = "glue" ->
            <<"read_raw_data", "clean_and_validate_data",
              "add_business_transformations", "write_to_staging",
              "final_statistics">>
      [] j = "curated" ->
            <<"read_staging_data",
              "create:daily_summary", "write:daily_summary",
              "create:hourly_patterns", "write:hourly_patterns",
              "create:payment_analysis", "write:payment_analysis",
              "create:distance_analysis", "write:distance_analysis",
              "create:location_analysis", "write:location_analysis">>

IndexOf(seq, x) == CHOOSE i \in 1..Len(seq) : seq[i] = x

\* where control goes when the step returns normally
After(j, step) ==
    LET i == IndexOf(Steps(j), step)
    IN IF i < Len(Steps(j)) THEN Steps(j)[i + 1]
       ELSE IF j \in {"s3", "local"} THEN "finally" ELSE "main"

\* where control goes when the step raises: except logs and re-raises; the
\* Transformer's finally clause runs first, the Glue jobs just propagate
OnRaiseContinue(j, step) == After(j, step)

OnRaiseReturn(j, step) == IF j \in {"s3", "local"} THEN "finally" ELSE "main"

OnRaiseSkipFinally(j, step) == "idle"

OnRaise(j, step) == IF j \in {"s3", "local"} THEN "finally" ELSE "idle"

\* ------------------------------------------------------- PipelineMonitor
\* JobRunState values of a Glue job run
JobRunStates == {"SUCCEEDED", "RUNNING", "FAILED", "TIMEOUT", "ERROR"}

\* status values of a Redshift Serverless workgroup
WorkgroupStates == {"AVAILABLE", "MODIFYING", "CREATING"}

\* get_glue_job_status: the state of the latest run (job_runs[1], the most recent
\* first), NO_RUNS without runs, ERROR when the API call raises
get_glue_job_status(job_runs, api_raises) ==
    IF api_raises THEN "ERROR"
    ELSE IF job_runs = << >> THEN "NO_RUNS"
    ELSE job_runs[1]

get_redshift_workgroup_status(status, api_raises) ==
    IF api_raises THEN "ERROR" ELSE status

NoHealthReport == [overall_status |-> "none", components |-> << >>]

\* monitor_pipeline_health: overall_status is assigned in source order, first
\* in the loop over the two Glue jobs, then after the workgroup check
monitor_pipeline_health(job_statuses, redshift_status, failures, cost) ==
    LET s0 == "HEALTHY"
        s1 == IF job_statuses[1] \in {"FAILED", "ERROR", "TIMEOUT"}
              THEN "UNHEALTHY" ELSE s0
        s2 == IF job_statuses[2] \in {"FAILED", "ERROR", "TIMEOUT"}
              THEN "UNHEALTHY" ELSE s1
        s3 == IF redshift_status # "AVAILABLE" THEN "DEGRADED" ELSE s2
    IN [overall_status |-> s3,
        components |->
            [glue_jobs |-> job_statuses,
             redshift_workgroup |-> redshift_status,
             recent_glue_failures |-> failures,
             weekly_cost_usd |-> cost]]

NoReport == [original_count |-> NULL, final_count |-> NULL,
             removed_count |-> NULL, removal_percentage |-> <<NULL, NULL>>]

CleaningReportOfKept(original_count, final_count) ==
    LET removed_count == original_count - final_count
    IN [original_count |-> original_count, final_count |-> final_count,
        removed_count |-> removed_count,
        removal_percentage |-> <<final_count * 100, original_count>>]

\* the figures the cleaner logs; removal_percentage is the exact quotient
\* kept as <<numerator, denominator>>
CleaningReport(original_count, final_count) ==
    LET removed_count == original_count - final_count
    IN [original_count |-> original_count, final_count |-> final_count,
        removed_count |-> removed_count,
        removal_percentage |-> <<removed_count * 100, original_count>>]

\* avg(column) is None when no row has a value; formatting None with :.2f
\* raises TypeError
AvgIsNone(t, cols) ==
    \E c \in cols : \A i \in 1..Len(t) : t[i][c] = NULL

\* ------------------------------------------------------------ input tables
\* 2024-02-01 08:00:00, a 20 minute, 10 mile, $15 credit-card trip
BaseRow ==
    [tpep_pickup_datetime |-> 28800000, tpep_dropoff_datetime |-> 30000000,
     passenger_count |-> 1, trip_distance |-> 1000, fare_amount |-> 1500,
     tip_amount |-> 300, total_amount |-> 2000, payment_type |-> 1,
     RatecodeID |-> 1]

\* Saturday 2024-02-03 19:00:00, a 30 minute, 3 mile cash trip to JFK
WeekendRow ==
    [tpep_pickup_datetime |-> 241200000, tpep_dropoff_datetime |-> 243000000,
     passenger_count |-> 2, trip_distance |-> 300, fare_amount |-> 900,
     tip_amount |-> 0, total_amount |-> 1100, payment_type |-> 2,
     RatecodeID |-> 2]

NullPassengerRow == [BaseRow EXCEPT !.passenger_count = NULL]
FarRow == [BaseRow EXCEPT !.trip_distance = 15000]
ZeroDurationRow ==
    [BaseRow EXCEPT !.tpep_dropoff_datetime = BaseRow.tpep_pickup_datetime]

PipelineRows ==
    {BaseRow, WeekendRow, NullPassengerRow, FarRow, ZeroDurationRow}

Tables(rows, n) == UNION {[1..k -> rows] : k \in 0..n}

\* every combination of boundary values of the validated columns
RowDomain ==
    {[BaseRow EXCEPT !.tpep_pickup_datetime = pu,
                     !.tpep_dropoff_datetime = dr,
                     !.passenger_count = pa,
                     !.trip_distance = di,
                     !.fare_amount = fa,
                     !.total_amount = to] :
        pu \in {NULL, 28800000, 28800500},
        dr \in {NULL, 28800000, 28800900, 28860000, 61200000},
        pa \in {NULL, -1, 0, 1, 9},
        di \in {NULL, -1, 0, 10, 10000, 15000},
        fa \in {NULL, -100, 1500, 60000},
        to \in {NULL, -100, 2000, 100001}}

\* trips of 0 s, 59 s, 1, 5, 7.5, 12, 20, 60 and 61 minutes over 0, 0.1 and
\* 10 miles at $5 to $150: the boundary values of the derived columns
SpeedRows ==
    {[BaseRow EXCEPT !.tpep_dropoff_datetime = dr,
                     !.trip_distance = di,
                     !.fare_amount = fa] :
        dr \in {28800900, 28859000, 28860000, 29100000, 29250000, 29520000,
                30000000, 32400000, 32460000},
        di \in {0, 10, 1000},
        fa \in {500, 1000, 1500, 10000, 15000}}

\* a 20 minute trip starting at each hour of the day
HourRows ==
    {[BaseRow EXCEPT !.tpep_pickup_datetime = h * 3600000,
                     !.tpep_dropoff_datetime = h * 3600000 + 1200000] :
        h \in 0..23}

PaymentRows ==
    {[BaseRow EXCEPT !.payment_type = p] : p \in {NULL, 0, 1, 2, 3, 4, 5, 6, 9}}

DeriveDomain == SpeedRows \cup HourRows \cup PaymentRows

\* the inputs of the aggregation: a trips of $20 at the standard rate paid by
\* card and b trips of $30 to JFK paid in cash, all on the same morning,
\* followed by at most one trip of another kind
TripA == BaseRow
TripB ==
    [BaseRow EXCEPT !.total_amount = 3000, !.payment_type = 2, !.RatecodeID = 2]

\* 10 miles in 61 minutes, 10 miles in 5 minutes, a trip that cost nothing
LongTripRow == [BaseRow EXCEPT !.tpep_dropoff_datetime = 32460000]
QuickRow == [BaseRow EXCEPT !.tpep_dropoff_datetime = 29100000]
FreeRow ==
    [BaseRow EXCEPT !.fare_amount = 0, !.tip_amount = 0, !.total_amount = 0]
ZeroDistanceRow == [BaseRow EXCEPT !.trip_distance = 0]

\* trips of exactly 1 mile, exactly 5 miles, 10.01 miles and half a mile
OneMileRow == [BaseRow EXCEPT !.trip_distance = 100]
FiveMileRow == [BaseRow EXCEPT !.trip_distance = 500]
OverTenMileRow == [BaseRow EXCEPT !.trip_distance = 1001]
HalfMileRow == [BaseRow EXCEPT !.trip_distance = 50]

AggRows ==
    {WeekendRow, LongTripRow, QuickRow, FreeRow, OneMileRow, FiveMileRow,
     OverTenMileRow, HalfMileRow}

Repeat(r, n) == [i \in 1..n |-> r]

AggTables ==
    {Repeat(TripA, a) \o Repeat(TripB, b) \o t :
        a \in 0..MaxRepeat, b \in 0..MaxRepeat,
        t \in {<< >>} \cup {<<r>> : r \in AggRows}}

\* trips of $10.10 and $15.20; with the $20.00 of BaseRow their sum depends
\* on the order of the additions
TenTenRow == [BaseRow EXCEPT !.total_amount = 1010]
FifteenTwentyRow == [BaseRow EXCEPT !.total_amount = 1520]

PartitionRows == {BaseRow, TenTenRow, FifteenTwentyRow, WeekendRow, FarRow}

PartitionTables == UNION {[1..n -> PartitionRows] : n \in 1..MaxPartitionRows}

\* rows on which a ratio of the Transformer or of a view has denominator 0
RatioRows == {BaseRow, FreeRow, ZeroDistanceRow}

\* ------------------------------------------------------------------ actions
Log(step, ok) == Append(trace, [step |-> step, ok |-> ok])

Return(step) ==
    /\ pc' = After(job, step)
    /\ trace' = Log(step, TRUE)
    /\ UNCHANGED <<err, outcome>>

Raise(step, kind) ==
    /\ pc' = OnRaise(job, step)
    /\ trace' = Log(step, FALSE)
    /\ err' = kind
    /\ outcome' = IF OnRaise(job, step) = "idle" THEN "raised" ELSE outcome

InitWith(tables) ==
    /\ raw \in tables
    /\ job = "none" /\ pc = "idle" /\ df = << >> /\ agg = {}
    /\ report = NoReport /\ rulesRun = FALSE /\ err = "" /\ outcome = "none"
    /\ spark = "None" /\ stopCount = 0 /\ committed = FALSE /\ trace = << >>
    /\ staging = [p \in StagingJobs |-> << >>]
    /\ curated = [v \in {ViewNames[i] : i \in 1..Len(ViewNames)} |-> << >>]
    /\ runs = 0
    /\ health_report = NoHealthReport

Init == InitWith(Tables(PipelineRows, MaxRows))

\* main(): a fresh object, then the pipeline method
Start(j, limit) ==
    /\ pc = "idle" /\ runs < limit
    /\ job' = j /\ pc' = Steps(j)[1] /\ runs' = runs + 1
    /\ df' = << >> /\ agg' = {} /\ report' = NoReport /\ rulesRun' = FALSE
    /\ err' = "" /\ outcome' = "running" /\ spark' = "None"
    /\ stopCount' = 0 /\ committed' = FALSE /\ trace' = << >>
    /\ UNCHANGED <<raw, staging, curated,
                   health_report>>

CreateSparkSession(fail) ==
    /\ pc = "create_spark_session"
    /\ IF fail
       THEN Raise("create_spark_session", "SessionError") /\ spark' = spark
       ELSE Return("create_spark_session") /\ spark' = "active"
    /\ UNCHANGED <<raw, job, df, agg, report, rulesRun, stopCount, committed,
                   staging, curated, runs,
                   health_report>>

ReadRawData(fail) ==
    /\ pc = "read_raw_data"
    /\ IF fail
       THEN Raise("read_raw_data", "ReadError") /\ df' = df
       ELSE Return("read_raw_data") /\ df' = raw
    /\ UNCHANGED <<raw, job, agg, report, rulesRun, spark, stopCount,
                   committed, staging, curated, runs,
                   health_report>>

\* The filters run when df_clean.count() is evaluated; the division by
\* original_count follows it.
Clean(step, cleaned, fail) ==
    /\ pc = step
    /\ IF fail
       THEN /\ Raise(step, "ReadError")
            /\ UNCHANGED <<df, report, rulesRun>>
       ELSE /\ rulesRun' = TRUE
            /\ IF Count(df) = 0
               THEN /\ Raise(step, "ZeroDivisionError")
                    /\ UNCHANGED <<df, report>>
               ELSE /\ Return(step)
                    /\ df' = cleaned
                    /\ report' = CleaningReport(Count(df), Count(cleaned))
    /\ UNCHANGED <<raw, job, agg, spark, stopCount, committed, staging,
                   curated, runs,
                   health_report>>

CleanData(fail) == Clean("clean_data", clean_data(df), fail)

CleanAndValidateData(fail) ==
    Clean("clean_and_validate_data", clean_and_validate_data(df), fail)

Transform(step, out) ==
    /\ pc = step
    /\ Return(step)
    /\ df' = out
    /\ UNCHANGED <<raw, job, agg, report, rulesRun, spark, stopCount,
                   committed, staging, curated, runs,
                   health_report>>

AddDerivedColumns ==
    Transform("add_derived_columns", add_derived_columns(df))

AddDataQualityFlags ==
    Transform("add_data_quality_flags", add_data_quality_flags(df))

AddBusinessTransformations ==
    Transform("add_business_transformations",
              add_business_transformations(df))

\* a step that only reads df: it raises on a Spark failure or when an
\* average it formats is None
Report(step, cols, fail) ==
    /\ pc = step
    /\ IF fail THEN Raise(step, "SparkError")
       ELSE IF AvgIsNone(df, cols) THEN Raise(step, "TypeError")
       ELSE Return(step)
    /\ UNCHANGED <<raw, job, df, agg, report, rulesRun, spark, stopCount,
                   committed, staging, curated, runs,
                   health_report>>

PrintSummaryStats(fail) ==
    Report("print_summary_stats",
           {"trip_distance", "trip_duration_minutes", "fare_amount",
            "tip_percentage", "speed_mph"}, fail)

AnalyzeDataQuality(fail) == Report("analyze_data_quality", {}, fail)

FinalStatistics(fail) ==
    Report("final_statistics",
           {"total_amount", "trip_distance", "trip_duration_minutes"}, fail)

\* res: "ok", "raise" (nothing written) or "raise_after_delete" (overwrite had
\* already cleared the path)
WriteToStaging(res) ==
    /\ pc = "write_to_staging"
    /\ res = "raise_after_delete" => job \in {"s3", "local"}
    /\ IF res = "ok"
       THEN /\ Return("write_to_staging")
            /\ staging' = [staging EXCEPT ![job] =
                             IF job = "glue" THEN AppendFiles(@, df)
                             ELSE Overwrite(@, df)]
       ELSE /\ Raise("write_to_staging", "WriteError")
            /\ staging' = [staging EXCEPT ![job] =
                             IF res = "raise" THEN @ ELSE << >>]
    /\ UNCHANGED <<raw, job, df, agg, report, rulesRun, spark, stopCount,
                   committed, curated, runs,
                   health_report>>

\* finally: if self.spark: self.spark.stop(); a pending exception goes on
Finally ==
    /\ pc = "finally"
    /\ pc' = "idle"
    /\ spark' = IF spark = "active" THEN "stopped" ELSE spark
    /\ stopCount' = IF spark = "active" THEN stopCount + 1 ELSE stopCount
    /\ outcome' = IF err # "" THEN "raised" ELSE "returned"
    /\ UNCHANGED <<raw, job, df, agg, report, rulesRun, err, committed, trace,
                   staging, curated, runs,
                   health_report>>

ReadStagingData(fail) ==
    /\ pc = "read_staging_data"
    /\ IF fail
       THEN Raise("read_staging_data", "ReadError") /\ df' = df
       ELSE Return("read_staging_data") /\ df' = Concat(staging["glue"])
    /\ UNCHANGED <<raw, job, agg, report, rulesRun, spark, stopCount,
                   committed, staging, curated, runs,
                   health_report>>

\* groupBy on a frame read from no file has no such column
CreateTable(v, fail) ==
    /\ pc = "create:" \o v
    /\ IF fail \/ Count(df) = 0
       THEN Raise(pc, "AnalysisException") /\ agg' = agg
       ELSE Return(pc) /\ agg' = CreateView(v, df)
    /\ UNCHANGED <<raw, job, df, report, rulesRun, spark, stopCount,
                   committed, staging, curated, runs,
                   health_report>>

WriteCuratedTable(v, fail) ==
    /\ pc = "write:" \o v
    /\ IF fail
       THEN Raise(pc, "WriteError") /\ curated' = curated
       ELSE Return(pc) /\ curated' = [curated EXCEPT ![v] = Append(@, agg)]
    /\ UNCHANGED <<raw, job, df, agg, report, rulesRun, spark, stopCount,
                   staging, committed, runs,
                   health_report>>

\* the value the pipeline method of a Glue job returns when it returns: its
\* only return statement is `return True`
success == TRUE

\* main() of the Glue jobs: job.commit() if the pipeline method returned a
\* true value, sys.exit(1) otherwise
Main ==
    /\ pc = "main"
    /\ pc' = "idle"
    /\ IF success
       THEN committed' = TRUE /\ outcome' = "returned"
       ELSE committed' = committed /\ outcome' = "exit(1)"
    /\ UNCHANGED <<raw, job, df, agg, report, rulesRun, err, spark,
                   stopCount, trace, staging, curated, runs,
                   health_report>>

\* the job runs of one Glue job as the API lists them, latest first
JobRunLists == UNION {[1..n -> JobRunStates] : n \in 0..MaxJobRuns}

\* main() of the monitor: one health check of a fresh PipelineMonitor.  The
\* inputs are what the AWS APIs answer: job_runs[i] the runs of Glue job i,
\* wg the workgroup status, raises[i] whether the call for job i (or, i = 3,
\* for the workgroup) raises, failures the datapoints with failed tasks and
\* cost the weekly cost in cents (NULL when Cost Explorer gave nothing).
MonitorPipelineHealth(job_runs, raises, wg, failures, cost) ==
    /\ pc = "idle" /\ job = "none"
    /\ job' = "monitor"
    /\ health_report' =
          monitor_pipeline_health(
              [i \in 1..2 |-> get_glue_job_status(job_runs[i], raises[i])],
              get_redshift_workgroup_status(wg, raises[3]), failures, cost)
    /\ UNCHANGED <<raw, pc, df, agg, report, rulesRun, err, outcome, spark,
                   stopCount, committed, trace, staging, curated, runs>>

\* One execution of a staging job and of the daily summary over its output
\* on a table that Spark holds in partitions: assign[i] is the partition of
\* row i, order the order in which the partitions' results arrive.  The
\* row-level stages run on each partition; the aggregation fills a buffer per
\* partition and merges the buffers.
ExecutePartitioned(j, assign, order) ==
    LET rows(k) == StagingRows(j, PartitionOf(raw, assign, order[k]))
    IN /\ pc = "idle" /\ job = "none" /\ Count(raw) > 0
       /\ job' = j
       /\ df' = Concat([k \in 1..Len(order) |-> rows(k)])
       /\ agg' = IF j = "glue"
                 THEN MergeAll([k \in 1..Len(order) |->
                                    PartialDailySummary(rows(k))])
                 ELSE {}
       /\ trace' = <<[step |-> "execute_partitioned", ok |-> TRUE,
                       assign |-> assign, order |-> order]>>
       /\ UNCHANGED <<raw, pc, report, rulesRun, err, outcome, spark,
                      stopCount, committed, staging, curated, runs,
                      health_report>>

Next ==
    \/ \E j \in Jobs : Start(j, MaxRuns)
    \/ \E fail \in BOOLEAN : CreateSparkSession(fail)
    \/ \E fail \in BOOLEAN : ReadRawData(fail)
    \/ \E fail \in BOOLEAN : CleanData(fail)
    \/ \E fail \in BOOLEAN : CleanAndValidateData(fail)
    \/ AddDerivedColumns
    \/ AddDataQualityFlags
    \/ AddBusinessTransformations
    \/ \E fail \in BOOLEAN : PrintSummaryStats(fail)
    \/ \E fail \in BOOLEAN : AnalyzeDataQuality(fail)
    \/ \E fail \in BOOLEAN : FinalStatistics(fail)
    \/ \E res \in {"ok", "raise", "raise_after_delete"} : WriteToStaging(res)
    \/ Finally
    \/ \E fail \in BOOLEAN : ReadStagingData(fail)
    \/ \E i \in 1..Len(ViewNames), fail \in BOOLEAN :
          CreateTable(ViewNames[i], fail)
    \/ \E i \in 1..Len(ViewNames), fail \in BOOLEAN :
          WriteCuratedTable(ViewNames[i], fail)
    \/ Main

Spec == Init /\ [][Next]_vars

\* The row-level stages of one staging run on a one-row (or empty) table
\* drawn from every combination of boundary values: filter and withColumn
\* act on each row alone.
InitRow == InitWith({<<r>> : r \in RowDomain} \cup {<< >>})

NextRow ==
    \/ \E j \in StagingJobs : Start(j, 1)
    \/ CreateSparkSession(FALSE)
    \/ ReadRawData(FALSE)
    \/ CleanData(FALSE)
    \/ CleanAndValidateData(FALSE)
    \/ AddDerivedColumns
    \/ AddDataQualityFlags
    \/ AddBusinessTransformations

SpecRow == InitRow /\ [][NextRow]_vars

\* The same stages on every table of five rows drawn from the pipeline rows.
InitScenario == InitWith([1..5 -> PipelineRows])

SpecScenario == InitScenario /\ [][NextRow]_vars

\* The same stages on one-row tables over the boundary values of the derived
\* columns.
InitDerive == InitWith({<<r>> : r \in DeriveDomain})

SpecDerive == InitDerive /\ [][NextRow]_vars

\* The Glue staging job and the curated job, run after run without injected
\* failures, on the aggregation inputs.
InitAgg == InitWith(AggTables)

NextAgg ==
    \/ \E j \in {"glue", "curated"} : Start(j, MaxRuns)
    \/ ReadRawData(FALSE)
    \/ CleanAndValidateData(FALSE)
    \/ AddBusinessTransformations
    \/ WriteToStaging("ok")
    \/ FinalStatistics(FALSE)
    \/ ReadStagingData(FALSE)
    \/ \E i \in 1..Len(ViewNames) : CreateTable(ViewNames[i], FALSE)
    \/ \E i \in 1..Len(ViewNames) : WriteCuratedTable(ViewNames[i], FALSE)
    \/ Main

SpecAgg == InitAgg /\ [][NextAgg]_vars

\* The Transformer, the Glue staging job and the curated job, run after run
\* without injected failures, on rows that make a ratio's denominator 0.
InitRatio == InitWith(Tables(RatioRows, MaxRows))

NextRatio ==
    \/ \E j \in {"s3", "glue", "curated"} : Start(j, MaxRatioRuns)
    \/ CreateSparkSession(FALSE)
    \/ ReadRawData(FALSE)
    \/ CleanData(FALSE)
    \/ CleanAndValidateData(FALSE)
    \/ AddDerivedColumns
    \/ AddDataQualityFlags
    \/ AddBusinessTransformations
    \/ PrintSummaryStats(FALSE)
    \/ WriteToStaging("ok")
    \/ FinalStatistics(FALSE)
    \/ Finally
    \/ ReadStagingData(FALSE)
    \/ \E i \in 1..Len(ViewNames) : CreateTable(ViewNames[i], FALSE)
    \/ \E i \in 1..Len(ViewNames) : WriteCuratedTable(ViewNames[i], FALSE)
    \/ Main

SpecRatio == InitRatio /\ [][NextRatio]_vars

\* The monitor alone, in a process that runs no pipeline, over every answer
\* of the Glue, Redshift, CloudWatch and Cost Explorer APIs.
NextMonitor ==
    \E job_runs \in [1..2 -> JobRunLists], raises \in [1..3 -> BOOLEAN],
       wg \in WorkgroupStates, failures \in 0..MaxDatapoints,
       cost \in {NULL, 1250} :
        MonitorPipelineHealth(job_runs, raises, wg, failures, cost)

InitMonitor == InitWith({<< >>})

SpecMonitor == InitMonitor /\ [][NextMonitor]_vars

\* One partitioned execution of each staging job, over every assignment of
\* the rows to partitions and every arrival order.
InitPartition == InitWith(PartitionTables)

NextPartition ==
    \E j \in StagingJobs, order \in Permutations(1..MaxPartitions) :
        \E assign \in [1..Len(raw) -> 1..MaxPartitions] :
            ExecutePartitioned(j, assign, order)

SpecPartition == InitPartition /\ [][NextPartition]_vars

\* ------------------------------------------------------------------ claims
Cleaners == {"clean_data", "clean_and_validate_data"}

\* the cleaner of the current run has just returned: df is its output
CleanerReturned ==
    /\ trace # << >>
    /\ trace[Len(trace)].step \in Cleaners
    /\ trace[Len(trace)].ok

HasEvent(step, ok) ==
    \E i \in 1..Len(trace) : trace[i].step = step /\ trace[i].ok = ok

\* C1: every row a staging job's cleaner outputs has pickup < dropoff,
\* 0 <= trip_distance <= 100, 0 <= fare_amount <= 500, total_amount >= 0 and
\* passenger_count >= 1.
C1_CleanOutputValid ==
    CleanerReturned =>
        \A i \in 1..Len(df) :
            /\ Lt(df[i].tpep_pickup_datetime, df[i].tpep_dropoff_datetime)
            /\ Ge(df[i].trip_distance, 0) /\ Le(df[i].trip_distance, 10000)
            /\ Ge(df[i].fare_amount, 0) /\ Le(df[i].fare_amount, 50000)
            /\ Ge(df[i].total_amount, 0)
            /\ Ge(df[i].passenger_count, 1)

\* The stages a method implements, by position in Loader (1), Validator (2),
\* Deriver (3), Flagger (4), Aggregator (5), Writer (6); {} for a method that
\* is no stage.
ViewSet == {ViewNames[i] : i \in 1..Len(ViewNames)}

StagesOf(step) ==
    CASE step \in {"read_raw_data", "read_staging_data"} -> {1}
      [] step \in Cleaners -> {2}
      [] step = "add_derived_columns" -> {3}
      [] step = "add_data_quality_flags" -> {4}
      [] step = "add_business_transformations" -> {3, 4}
      [] step \in {"create:" \o v : v \in ViewSet} -> {5}
      [] step \in {"write:" \o v : v \in ViewSet} \cup {"write_to_staging"}
            -> {6}
      [] OTHER -> {}

\* the output table a method works on; "all" for the row-level stages
TableOf(step) ==
    IF \E v \in ViewSet : step \in {"create:" \o v, "write:" \o v}
    THEN CHOOSE v \in ViewSet : step \in {"create:" \o v, "write:" \o v}
    ELSE "all"

SameFlow(s1, s2) ==
    TableOf(s1) = TableOf(s2) \/ TableOf(s1) = "all" \/ TableOf(s2) = "all"

StagesOfJob(j) == IF j \in StagingJobs THEN {1, 2, 3, 4, 6} ELSE {1, 5, 6}

\* what a complete staging run of job j makes of the raw table
StagingOutput(j) ==
    IF j = "glue"
    THEN add_business_transformations(clean_and_validate_data(raw))
    ELSE add_data_quality_flags(add_derived_columns(clean_data(raw)))

Last(files) == files[Len(files)]

C3_AbortOnFailure ==
    /\ \A i \in 1..Len(trace) : ~trace[i].ok => i = Len(trace)
    /\ \A i, k \in 1..Len(trace) : i # k => trace[i].step # trace[k].step
    /\ err # "" => pc \in {"idle", "finally"}
    /\ (err # "" /\ pc = "idle") => (outcome = "raised" /\ ~committed)

\* a run that raised in a stage before its last one
C3_Witness ==
    /\ err \in {"ReadError", "WriteError"} /\ pc = "idle" /\ outcome = "raised"
    /\ Len(trace) < Len(Steps(job))
    /\ ~trace[Len(trace)].ok

C5_WritersOverwrite ==
    /\ (job \in StagingJobs /\ HasEvent("write_to_staging", TRUE))
          => Concat(staging[job]) = StagingOutput(job)
    /\ \A v \in ViewSet :
          (job = "curated" /\ HasEvent("write:" \o v, TRUE))
             => curated[v] = <<CreateView(v, df)>>

\* C6: for a non-empty input the cleaner reports removed_count =
\* original_count - final_count >= 0 and removal_percentage =
\* removed_count / original_count * 100, where original_count and final_count
\* are the row counts of its input and output; it does so also when nothing
\* was removed.
C6_ReportConsistent ==
    /\ (HasEvent("clean_data", TRUE) \/ HasEvent("clean_and_validate_data", TRUE))
          <=> report # NoReport
    /\ report # NoReport =>
          /\ report.original_count = Count(raw) /\ report.original_count > 0
          /\ report.final_count >= 0
          /\ report.removed_count = report.original_count - report.final_count
          /\ report.removed_count >= 0
          /\ report.final_count <= report.original_count
          /\ report.removal_percentage[2] # 0
          /\ report.removal_percentage[1] * report.original_count
                = report.removed_count * 100 * report.removal_percentage[2]
    /\ CleanerReturned => report.final_count = Count(df)

\* the cleaner removed nothing from a non-empty table and reported it
C6_Witness ==
    /\ CleanerReturned /\ report.removed_count = 0
    /\ report.removal_percentage[1] = 0 /\ report.original_count = MaxRows

\* C7: on an empty input the cleaner fails with an input-empty error raised
\* before any rule has run; on a non-empty input it does not fail.
C7_EmptyInputReported ==
    (/\ trace # << >>
     /\ trace[Len(trace)].step \in Cleaners
     /\ err # "ReadError") =>
        IF Count(raw) = 0
        THEN ~trace[Len(trace)].ok /\ err = "InputEmpty" /\ ~rulesRun
        ELSE trace[Len(trace)].ok

\* the rules of a job's cleaner on the columns other than passenger_count
OtherRulesPass(j, r) ==
    IF j = "glue"
    THEN /\ IsNotNull(r.tpep_pickup_datetime)
         /\ IsNotNull(r.tpep_dropoff_datetime)
         /\ Ge(r.trip_distance, 10) /\ Le(r.trip_distance, 10000)
         /\ Ge(r.total_amount, 0) /\ Le(r.total_amount, 100000)
         /\ Lt(r.tpep_pickup_datetime, r.tpep_dropoff_datetime)
         /\ GlueReasonableDuration(GlueDuration(r))
    ELSE /\ NotNullTimes(r) /\ ValidDistance(r) /\ ValidFare(r)
         /\ NonNegativeTotal(r) /\ PickupBeforeDropoff(r)

\* C8: in every staging job's cleaner a row that passes the other rules is
\* kept whatever its passenger count: with passenger_count 1 when it was null
\* or 0, with its own passenger_count otherwise.
C8_ImputationNeverRejects ==
    (CleanerReturned /\ Len(raw) = 1 /\ OtherRulesPass(job, raw[1])) =>
        /\ Len(df) = 1
        /\ df[1].passenger_count =
              IF raw[1].passenger_count \in {NULL, 0} THEN 1
              ELSE raw[1].passenger_count

\* the cleaner of the Transformer is about to hand df to add_derived_columns
AtDeriver == pc = "add_derived_columns"

\* C9 as stated: every row the Deriver evaluates speed on has a trip duration
\* greater than 0, so the guard's zero branch is never taken.
C9_DurationPositive ==
    AtDeriver => \A i \in 1..Len(df) : DurationMinutes(df[i]) > 0

\* C9: a row with pickup equal to dropoff never reaches the Deriver: every
\* row it evaluates speed on has pickup < dropoff and a trip duration >= 0,
\* which is 0 exactly when pickup and dropoff lie in the same whole second.
C9_NoEqualTimesAtDeriver ==
    AtDeriver =>
        \A i \in 1..Len(df) :
            /\ df[i].tpep_pickup_datetime < df[i].tpep_dropoff_datetime
            /\ DurationMinutes(df[i]) >= 0
            /\ DurationMinutes(df[i]) = 0 <=>
                  unix_timestamp(df[i].tpep_pickup_datetime)
                     = unix_timestamp(df[i].tpep_dropoff_datetime)

\* a row with pickup before dropoff within one second is at the Deriver, and
\* its speed comes from the guard's zero branch
C9_Witness ==
    /\ AtDeriver /\ Len(df) = 1
    /\ DurationMinutes(df[1]) = 0
    /\ df[1].trip_distance > 0
    /\ Enrich(df[1]).speed_mph = 0

\* five otherwise valid trips: one with a null passenger count, one of 150
\* miles, one with pickup equal to dropoff
IsScenario(t) ==
    /\ Len(t) = 5
    /\ Cardinality({i \in 1..5 : t[i] = NullPassengerRow}) = 1
    /\ Cardinality({i \in 1..5 : t[i] = FarRow}) = 1
    /\ Cardinality({i \in 1..5 : t[i] = ZeroDurationRow}) = 1
    /\ Cardinality({i \in 1..5 : t[i] \in {BaseRow, WeekendRow}}) = 2

\* C10: cleaning the five-trip scenario gives final_count 3, removed_count 2,
\* removal_percentage 40.0, and the null-passenger trip is kept with
\* passenger_count 1.
C10_Scenario ==
    (AtDeriver /\ IsScenario(raw)) =>
        /\ report.original_count = 5
        /\ report.final_count = 3
        /\ report.removed_count = 2
        /\ report.removal_percentage[1]
              = 40 * report.removal_percentage[2]
        /\ Len(df) = 3
        /\ \E i \in 1..Len(df) :
              df[i] = [NullPassengerRow EXCEPT !.passenger_count = 1]
        /\ \A i \in 1..Len(df) : df[i].passenger_count >= 1

C10_Witness == AtDeriver /\ IsScenario(raw) /\ Len(df) = 3

\* the last stage of a staging run that adds columns has just returned: df is
\* the flagged staging output
FlaggerReturned ==
    /\ trace # << >>
    /\ trace[Len(trace)].step
          \in {"add_data_quality_flags", "add_business_transformations"}
    /\ trace[Len(trace)].ok

SpeedOf(r) ==
    IF "speed_mph" \in DOMAIN r THEN r.speed_mph ELSE r.average_speed_mph

\* the whole seconds between pickup and dropoff of a raw row
TripSeconds(r) ==
    unix_timestamp(r.tpep_dropoff_datetime)
       - unix_timestamp(r.tpep_pickup_datetime)

\* C11: no row with a derived speed above 80 mph is in the flagged staging
\* output of a staging job; a valid 10 mile trip of 7.5 minutes (exactly
\* 80 mph) is kept.
C11_NoFastRowsInOutput ==
    FlaggerReturned =>
        /\ \A i \in 1..Len(df) : ~Gt(SpeedOf(df[i]), 8000)
        /\ (raw[1].trip_distance = 1000 /\ TripSeconds(raw[1]) = 450)
              => (Len(df) = 1 /\ SpeedOf(df[1]) = 8000)

\* C12: for every validated row add_derived_columns sets speed_mph to
\* distance / trip_duration_minutes * 60 rounded half-up to 2 decimals when
\* the duration is > 0 and to 0 otherwise; 10 miles in 20 minutes gives 30.00
\* and speed flag "Normal"; 10 miles in 5 minutes gives 120.00 and the row is
\* absent from the flagged output.
C12_SpeedFormula ==
    /\ AtDeriver =>
          \A i \in 1..Len(df) :
             LET e == Enrich(df[i])
                 dur == e.trip_duration_minutes
                 n == df[i].trip_distance * 18000
             IN /\ dur = 3 * RoundDiv(TripSeconds(df[i]) * 100, 60)
                /\ IF dur > 0
                   THEN /\ 2 * e.speed_mph * dur - dur <= 2 * n
                        /\ 2 * n < 2 * e.speed_mph * dur + dur
                   ELSE e.speed_mph = 0
                /\ (df[i].trip_distance = 1000 /\ dur = 6000)
                      => e.speed_mph = 3000
                /\ (df[i].trip_distance = 1000 /\ dur = 1500)
                      => e.speed_mph = 12000
    /\ (job \in {"s3", "local"} /\ FlaggerReturned
           /\ raw[1].trip_distance = 1000) =>
          /\ TripSeconds(raw[1]) = 1200 =>
                /\ Len(df) = 1 /\ df[1].speed_mph = 3000
                /\ df[1].quality_flag_speed = "Normal"
          /\ TripSeconds(raw[1]) = 300 => df = << >>

\* the 10 mile, 20 minute trip is in the flagged output at 30.00 mph
C12_Witness ==
    /\ job \in {"s3", "local"} /\ FlaggerReturned /\ Len(df) = 1
    /\ df[1].trip_distance = 1000 /\ df[1].trip_duration_minutes = 6000
    /\ df[1].speed_mph = 3000 /\ df[1].quality_flag_speed = "Normal"

\* the time-of-day category of the claim
SpecTimeOfDay(h) ==
    IF 6 <= h /\ h <= 11 THEN "Morning"
    ELSE IF 12 <= h /\ h <= 17 THEN "Afternoon"
    ELSE IF 18 <= h /\ h <= 22 THEN "Evening"
    ELSE "Night"

\* C13: in every staging job a row's time-of-day category is Morning for a
\* pickup hour in 6..11, Afternoon in 12..17, Evening in 18..22 and Night
\* otherwise (23, 0..5).
C13_TimeOfDay ==
    FlaggerReturned =>
        \A i \in 1..Len(df) :
            /\ df[i].pickup_hour \in 0..23
            /\ df[i].time_of_day_category = SpecTimeOfDay(df[i].pickup_hour)

\* the label of a payment code in the claim; dflt is the job's default label
SpecPaymentLabel(code, dflt) ==
    CASE code = 1 -> "Credit Card"
      [] code = 2 -> "Cash"
      [] code = 3 -> "No Charge"
      [] code = 4 -> "Dispute"
      [] code = 5 -> "Unknown"
      [] code = 6 -> "Voided Trip"
      [] OTHER -> dflt

DefaultLabel(j) == IF j = "glue" THEN "Other" ELSE "Unknown"

\* C14: in every staging job the payment codes 1..6 are labelled Credit
\* Card, Cash, No Charge, Dispute, Unknown, Voided Trip, and every other or
\* missing code gets the job's one default label.
C14_PaymentLabels ==
    FlaggerReturned =>
        \A i \in 1..Len(df) :
            df[i].payment_method
               = SpecPaymentLabel(df[i].payment_type, DefaultLabel(job))

\* C15: add_data_quality_flags sets the speed flag to High Speed above 50,
\* Very Slow below 0.5, the fare flag to High Fare Rate above 10 per mile, Low
\* Fare Rate below 1, the duration flag to Long Trip above 60 minutes, Very
\* Short below 1 minute, and Normal otherwise; the thresholds are strict, so
\* 50, 0.5, 10, 1 and 60 are Normal.
C15_FlagThresholds ==
    (job \in {"s3", "local"} /\ FlaggerReturned) =>
        \A i \in 1..Len(df) :
            LET r == df[i] IN
            /\ r.quality_flag_speed =
                  (IF r.speed_mph > 5000 THEN "High Speed"
                   ELSE IF r.speed_mph < 50 THEN "Very Slow" ELSE "Normal")
            /\ r.quality_flag_fare =
                  (IF r.fare_per_mile > 1000 THEN "High Fare Rate"
                   ELSE IF r.fare_per_mile < 100 THEN "Low Fare Rate"
                   ELSE "Normal")
            /\ r.quality_flag_duration =
                  (IF r.trip_duration_minutes > 18000 THEN "Long Trip"
                   ELSE IF r.trip_duration_minutes < 300 THEN "Very Short"
                   ELSE "Normal")
            /\ r.speed_mph \in {5000, 50} => r.quality_flag_speed = "Normal"
            /\ r.fare_per_mile \in {1000, 100}
                  => r.quality_flag_fare = "Normal"
            /\ r.trip_duration_minutes \in {18000, 300}
                  => r.quality_flag_duration = "Normal"

\* a flagged row at exactly 50 mph and exactly $10 per mile, both Normal
C15_Witness ==
    /\ job \in {"s3", "local"} /\ FlaggerReturned /\ Len(df) = 1
    /\ df[1].speed_mph = 5000 /\ df[1].quality_flag_speed = "Normal"
    /\ df[1].fare_per_mile = 1000 /\ df[1].quality_flag_fare = "Normal"

\* create_<view> of the running curated job has just returned: agg is the
\* view computed from df
ViewReturned(v) ==
    /\ job = "curated" /\ trace # << >>
    /\ trace[Len(trace)].step = "create:" \o v
    /\ trace[Len(trace)].ok

\* the indexes of the staging rows of a daily-summary group
DailyGroup(t, row) ==
    {i \in 1..Len(t) : /\ t[i].pickup_date = row.pickup_date
                       /\ t[i].day_type = row.day_type}

\* at least one of the three quality flags of a staging row (speed, fare per
\* mile, duration; thresholds of add_data_quality_flags) is not Normal
AnyFlagNotNormal(r) ==
    \/ SpeedFlag(SpeedOf(r)) # "Normal"
    \/ FareFlag(r.fare_per_mile) # "Normal"
    \/ DurationFlag(r.trip_duration_minutes) # "Normal"

\* C16: in the daily summary the anomaly count of a group is the number of
\* its trips for which at least one of the three quality flags (speed, fare,
\* duration) is not Normal.
C16_AnomalyCount ==
    ViewReturned("daily_summary") =>
        \A row \in agg :
            row.anomaly_trips =
                Cardinality({i \in DailyGroup(df, row) :
                                AnyFlagNotNormal(df[i])})

\* the rows written by the Transformer / by the curated job that are in
\* storage
Stored(files) == {Concat(files)[i] : i \in 1..Len(Concat(files))}

StoredRows(v) == UNION {curated[v][i] : i \in 1..Len(curated[v])}

\* the ratios in storage whose denominator is 0 all have the value p
ZeroDenominatorGives(p) ==
    /\ \A r \in Stored(staging["s3"]) :
          /\ r.trip_duration_minutes = 0 => r.speed_mph = p
          /\ r.trip_distance = 0 => r.fare_per_mile = p
          /\ r.fare_amount = 0 => r.tip_percentage = p
    /\ \A r \in StoredRows("hourly_patterns") :
          (~NullStddev(r.fare_stddev) /\ r.avg_fare[1] = 0) =>
              (r.fare_coefficient_of_variation.is_null <=> p = NULL)
    /\ \A r \in StoredRows("payment_analysis") :
          (~NullAvg(r.avg_tip)
             /\ r.avg_fare[1] * r.avg_tip[2] = r.avg_tip[1] * r.avg_fare[2])
             => r.avg_tip_percentage = p
    /\ \A r \in StoredRows("daily_summary") :
          r.total_trips = 0 =>
              /\ r.revenue_per_trip = p /\ r.credit_card_percentage = p
              /\ r.avg_passengers_per_trip = p /\ r.anomaly_percentage = p
    /\ \A r \in StoredRows("distance_analysis") :
          r.trip_count = 0 => r.fare_efficiency = p

\* the methods that compute a ratio column
RatioSteps ==
    {"add_derived_columns", "add_business_transformations"}
       \cup {"create:" \o v : v \in ViewSet}

\* C17: a ratio with a zero denominator never raises, and its result follows
\* one policy, always 0 or always null, the same for every ratio the
\* pipeline computes.
C17_UniformZeroPolicy ==
    /\ \A i \in 1..Len(trace) :
          (trace[i].step \in RatioSteps /\ ~trace[i].ok) => Count(df) = 0
    /\ ZeroDenominatorGives(0) \/ ZeroDenominatorGives(NULL)

RECURSIVE GroupRevenue(_, _)
GroupRevenue(t, row) ==
    IF t = << >> THEN 0
    ELSE (IF DailyGroup(<<Head(t)>>, row) = {} THEN 0
          ELSE Head(t).total_amount)
         + GroupRevenue(Tail(t), row)

C19_RankDescending ==
    ViewReturned("location_analysis") =>
        \A r1, r2 \in agg :
            r1.trip_count > r2.trip_count
               => r1.market_share_rank < r2.market_share_rank

FlagColumns ==
    {"quality_flag_speed", "quality_flag_fare", "quality_flag_duration"}

\* C21: The Quality Flagger never removes or alters rows: the step
\* add_data_quality_flags returns exactly the rows it received, in the same
\* order, every column they had keeps its value, the only new columns are the
\* three flag columns, and each flag is a function of its own source column
\* alone (speed_mph, fare_per_mile, trip_duration_minutes).
C21_FlaggerKeepsRows ==
    [][(pc = "add_data_quality_flags" /\ pc' # pc) =>
        /\ Len(df') = Len(df)
        /\ \A i \in 1..Len(df) :
            /\ DOMAIN df'[i] = DOMAIN df[i] \cup FlagColumns
            /\ FlagColumns \cap DOMAIN df[i] = {}
            /\ \A c \in DOMAIN df[i] : df'[i][c] = df[i][c]
            /\ df'[i].quality_flag_speed =
                  (IF df[i].speed_mph > 5000 THEN "High Speed"
                   ELSE IF df[i].speed_mph < 50 THEN "Very Slow"
                   ELSE "Normal")
            /\ df'[i].quality_flag_fare =
                  (IF df[i].fare_per_mile > 1000 THEN "High Fare Rate"
                   ELSE IF df[i].fare_per_mile < 100 THEN "Low Fare Rate"
                   ELSE "Normal")
            /\ df'[i].quality_flag_duration =
                  (IF df[i].trip_duration_minutes > 18000 THEN "Long Trip"
                   ELSE IF df[i].trip_duration_minutes < 300
                        THEN "Very Short"
                   ELSE "Normal")]_vars

\* the Flagger has returned a row it flagged as an anomaly on speed while the
\* other two flags of the same row are Normal
C21_Witness ==
    /\ job \in {"s3", "local"} /\ FlaggerReturned /\ Len(df) = 1
    /\ df[1].quality_flag_speed # "Normal"
    /\ df[1].quality_flag_fare = "Normal"
    /\ df[1].quality_flag_duration = "Normal"

\* the six rules of the Transformer's cleaner, numbered in source order
ApplyRule(k, t) ==
    CASE k = 1 -> Filter(t, NotNullTimes)
      [] k = 2 -> Filter(t, ValidDistance)
      [] k = 3 -> Filter(t, ValidFare)
      [] k = 4 -> Filter(t, NonNegativeTotal)
      [] k = 5 -> WithColumns(t, ImputePassengerCount)
      [] k = 6 -> Filter(t, PickupBeforeDropoff)

RECURSIVE ApplyRules(_, _)
ApplyRules(order, t) ==
    IF order = << >> THEN t
    ELSE ApplyRules(Tail(order), ApplyRule(Head(order), t))

\* the 720 orders of the six rules
RuleOrders == Permutations(1..6)

\* C23: The result of the Transformer's cleaner does not depend on the order of
\* its rules: whatever table the cleaner was given, applying the four
\* range/missing-value rejections, the passenger-count imputation and the
\* pickup < dropoff rejection in any of the 720 orders gives the rows, with
\* the field values, that the cleaner returned.
C23_RuleOrderIrrelevant ==
    (job \in {"s3", "local"} /\ CleanerReturned) =>
        \A p \in RuleOrders : ApplyRules(p, raw) = df

\* the cleaner returned a row whose passenger count it imputed: the
\* imputation acted and the rejections after and before it let the row pass
C23_Witness ==
    /\ job \in {"s3", "local"} /\ CleanerReturned
    /\ Len(df) = 1 /\ Len(raw) = 1
    /\ IsNull(raw[1].passenger_count) /\ df[1].passenger_count = 1

\* the bucket scheme of the distance analysis, on distances in 1/100 mile
SchemeCategory(distance) ==
    IF distance <= 100 THEN "Short"
    ELSE IF distance <= 500 THEN "Medium"
    ELSE IF distance <= 1000 THEN "Long"
    ELSE "Very Long"

DistanceKey(r) == <<SchemeCategory(r.trip_distance), r.time_of_day_category>>

\* C24: In the distance analysis view every trip is assigned exactly one of
\* four distance categories under one fixed scheme: distance <= 1 mile is
\* Short, 1 < distance <= 5 is Medium, 5 < distance <= 10 is Long and distance
\* > 10 is Very Long, so that 1, 5 and 10 miles fall in the lower bucket; and
\* every trip is counted in exactly one (distance category, time of day)
\* group, each group counting exactly the trips of its key.
C24_DistanceBuckets ==
    ViewReturned("distance_analysis") =>
        /\ \A i \in 1..Len(df) :
              Cardinality({a \in agg : a.key = DistanceKey(df[i])}) = 1
        /\ \A a \in agg :
              /\ a.distance_category
                    \in {"Short", "Medium", "Long", "Very Long"}
              /\ a.trip_count =
                    Cardinality({i \in 1..Len(df) : DistanceKey(df[i]) = a.key})
              /\ a.trip_count >= 1
        /\ \A i \in 1..Len(df) : \A a \in agg :
              a.key = DistanceKey(df[i]) =>
                  /\ df[i].trip_distance = 100 => a.distance_category = "Short"
                  /\ df[i].trip_distance = 500 => a.distance_category = "Medium"
                  /\ df[i].trip_distance = 1000 => a.distance_category = "Long"
                  /\ df[i].trip_distance > 1000
                        => a.distance_category = "Very Long"

\* the view was computed from a staging table with a trip of exactly 1 mile
\* and trips of exactly 10 miles, which landed in the groups Short and Long
C24_Witness ==
    /\ ViewReturned("distance_analysis")
    /\ \E i, j \in 1..Len(df) :
          df[i].trip_distance = 100 /\ df[j].trip_distance = 1000
    /\ \E a, b \in agg :
          /\ a.distance_category = "Short" /\ a.trip_count = 1
          /\ b.distance_category = "Long" /\ b.trip_count >= 2

\* the staging columns the five create_<view> methods read
ViewColumns ==
    {"pickup_date", "day_type", "pickup_hour", "time_of_day_category",
     "payment_method", "rate_code_desc", "total_amount", "trip_distance",
     "trip_duration_minutes", "average_speed_mph", "fare_per_mile",
     "tip_amount", "passenger_count", "data_quality_flag"}

\* the staging jobs whose output path is a dataset=nyc_taxi_processed prefix
DatasetWriters == {"s3", "glue"}

\* C25: Every column that the five aggregation views read from the staging
\* table is present in every row stored by every staging job that writes
\* dataset=nyc_taxi_processed, so that the Aggregator finds its columns
\* whichever of these jobs produced its input.
C25_ViewColumnsPresent ==
    \A j \in DatasetWriters :
        \A i \in 1..Len(Concat(staging[j])) :
            ViewColumns \subseteq DOMAIN Concat(staging[j])[i]

\* the trip-count column of a view row
TripCount(a) ==
    IF a.view = "daily_summary" THEN a.total_trips ELSE a.trip_count

RECURSIVE SumTripCounts(_)
SumTripCounts(rows) ==
    IF rows = {} THEN 0
    ELSE LET a == CHOOSE x \in rows : TRUE
         IN TripCount(a) + SumTripCounts(rows \ {a})

C27_GlueRatiosDefined ==
    /\ (job = "glue" /\ pc = "add_business_transformations") =>
          \A i \in 1..Len(df) :
              /\ df[i].trip_distance # NULL /\ df[i].trip_distance >= 10
              /\ df[i].trip_duration_minutes # NULL
              /\ df[i].trip_duration_minutes >= 300
    /\ (job = "glue" /\ HasEvent("add_business_transformations", TRUE)) =>
          \A i \in 1..Len(df) :
              /\ IsNotNull(df[i].average_speed_mph)
              /\ IsNotNull(df[i].fare_per_mile)

\* a run of the Transformer has ended: control is back in the caller
TransformerEnded ==
    job \in {"s3", "local"} /\ pc = "idle" /\ outcome \in {"returned", "raised"}

SomeStageRaised == \E i \in 1..Len(trace) : ~trace[i].ok

GlueRunEnded ==
    /\ job \in {"glue", "curated"} /\ pc = "idle"
    /\ outcome \in {"returned", "raised", "exit(1)"}

\* every stage of the running job has completed without raising
AllStagesCompleted ==
    /\ ~SomeStageRaised
    /\ \A i \in 1..Len(Steps(job)) : HasEvent(Steps(job)[i], TRUE)

MonitoredStatuses ==
    {health_report.components.glue_jobs[i] : i \in 1..2}

\* C30: In monitor_pipeline_health a Glue job failure is never masked:
\* whenever the latest status of a monitored Glue job is FAILED, ERROR or
\* TIMEOUT the report's overall_status is UNHEALTHY, whatever the Redshift
\* workgroup status is, and overall_status is HEALTHY only if no monitored job
\* is in those states and the workgroup is AVAILABLE.
C30_FailureNeverMasked ==
    job = "monitor" =>
        /\ MonitoredStatuses \cap {"FAILED", "ERROR", "TIMEOUT"} # {}
              => health_report.overall_status = "UNHEALTHY"
        /\ health_report.overall_status = "HEALTHY"
              => /\ MonitoredStatuses \cap {"FAILED", "ERROR", "TIMEOUT"} = {}
                 /\ health_report.components.redshift_workgroup = "AVAILABLE"

\* the two tables hold the same rows with the same values, each as often
SameRows(t1, t2) ==
    /\ Len(t1) = Len(t2)
    /\ \A i \in 1..Len(t1) :
          Cardinality({k \in 1..Len(t1) : t1[k] = t1[i]})
              = Cardinality({k \in 1..Len(t2) : t2[k] = t1[i]})

\* C22: For every partitioning of the input rows and every order of
\* processing and combining the partitions, running the row-level stages per
\* partition and merging the per-partition partial aggregates (count, sum, min,
\* max) gives the same surviving rows, the same group keys and the same
\* aggregate values as processing the whole table at once.
C22_PartitionIndependent ==
    (job \in StagingJobs /\ pc = "idle" /\ outcome = "none") =>
        /\ SameRows(df, StagingRows(job, raw))
        /\ job = "glue" => agg = PartialDailySummary(StagingRows(job, raw))

====
